---- MODULE Spec2Model ----
(***************************************************************************)
(* Site health check and composite scoring of BlogAutomation                *)
(* (src/06_automation_scripts_complete.py): the six probes, the score       *)
(* aggregator calculate_health_score and the report store                   *)
(* save_health_report with its 'latest' symlink.                            *)
(***************************************************************************)
EXTENDS Integers, Sequences, FiniteSets, TLC

VARIABLES
    pc,             \* position of the health run inside check_site_health
    run,            \* number of health runs started so far
    health_report,  \* the dict built by check_site_health (keys -> values)
    report_file,    \* local of save_health_report: path of the timestamped file
    link_seen,      \* local of save_health_report: result of latest_report.exists()
    log,            \* logger records of save_health_report in the current run
    clock,          \* wall clock in whole seconds (strftime %Y%m%d_%H%M%S)
    files,          \* regular files of the file system: path -> content
    latest,         \* the symlink automation/latest_health_report.json: target or NoLink
    env,            \* the site and the external tools as the current run meets them
    tree            \* the local repository: _config.yml, entries of _posts, Markdown links

vars == <<pc, run, health_report, report_file, link_seen, log, clock, files, latest, env, tree>>

----------------------------------------------------------------------------
(* Bounds of the model *)

\* health runs started in one behaviour
MaxRuns == 2
\* last second of the wall clock
MaxClock == 1
\* largest number of entries of _posts drawn for a report handed to the aggregator
MaxPosts == 3
\* largest number of entries of _posts in the repository of the health runs
MaxTreePosts == 1
\* largest number of Markdown links in the local repository
MaxLinks == 1
\* largest number of entries of _posts in a repository the content functions
\* are run on
MaxEntries == 2
\* largest number of Markdown links in such a repository
MaxContentLinks == 2
\* largest rise of the audit score between two reports that are compared; any
\* higher score is reached in rises of this size, since int() leaves no wider
\* gap between two scores run_lighthouse_audit returns (56 and 59)
MaxRise == 3

----------------------------------------------------------------------------
(* Python values *)

\* Optional[int]: None is the empty sequence, a value v is <<v>>
None == <<>>
Some(v) == <<v>>

\* the empty dict {}
EmptyDict == [k \in {} |-> TRUE]

\* dict.get(key, default)
Get(d, key, default) == IF key \in DOMAIN d THEN d[key] ELSE default

\* truth value of an Optional[int]: None and 0 are falsy
Truthy(opt) == opt # None /\ opt[1] # 0

\* bool as summed by sum(): True is 1, False is 0
BoolInt(b) == IF b THEN 1 ELSE 0

\* int(x * 0.2) on a Python int x in 0..100: the double product truncated
\* toward zero.  0.2 is stored slightly above 1/5, so the product is never
\* below x/5 and truncation yields the integer quotient.
IntTimesPointTwo(x) == (x * 2) \div 10

\* The performance scores p/100 (two decimals, as Lighthouse reports them) for
\* which the double product (p/100) * 100 falls just below p, so that int()
\* truncates it to p - 1.
TruncatesBelow == {29, 57, 58}

\* int(performance_score * 100) for performance_score = p/100
IntTimesHundred(p) == IF p \in TruncatesBelow THEN p - 1 ELSE p

----------------------------------------------------------------------------
(* Exceptions and their handlers *)

\* A call returns a value, raises an exception, or never comes back (it waits
\* without a timeout for a peer that never answers).
Return(v) == [outcome |-> "return", value |-> v, exc |-> ""]
Raise(e) == [outcome |-> "raise", value |-> None, exc |-> e]
Block == [outcome |-> "block", value |-> None, exc |-> ""]

\* mutant: the handler of run_lighthouse_audit without FileNotFoundError
LighthouseCaught_NoFileNotFound == {"TimeoutExpired", "JSONDecodeError"}

\* except (subprocess.TimeoutExpired, FileNotFoundError, json.JSONDecodeError)
LighthouseCaught == {"TimeoutExpired", "FileNotFoundError", "JSONDecodeError"}

\* except requests.RequestException: Timeout and ConnectionError are subclasses
RequestExceptions == {"Timeout", "ConnectionError"}

----------------------------------------------------------------------------
(* Collaborators: what the network and the external tools can answer *)

\* an HTTP exchange: a response, an exception of requests, or silence (the
\* server accepts the connection and never answers)
Response(code, ms, body) == [kind |-> "response", status_code |-> code, elapsed_ms |-> ms, body |-> body]
NetError(e) == [kind |-> e, status_code |-> 0, elapsed_ms |-> 0, body |-> {}]
Silent == NetError("silent")

\* requests.get(url, timeout=t): silence ends in requests.Timeout after t seconds
WithTimeout(x) == IF x.kind = "silent" THEN NetError("Timeout") ELSE x

\* subprocess.run(cmd, timeout=t): an exit code, or an exception; a tool that
\* hangs ends in TimeoutExpired after t seconds
Exit(code) == [kind |-> "exit", returncode |-> code]
ProcError(e) == [kind |-> e, returncode |-> 0]

\* markers the probes look for in the home page
TitleTag == "<title>"
DescriptionTag == "name=\"description\""

----------------------------------------------------------------------------
(* Construction *)

\* except FileNotFoundError / except yaml.YAMLError of load_site_config
ConfigCaught == {"FileNotFoundError", "YAMLError"}

\* load_site_config: config is the state of the file at self.config_path.
\* The parsed mapping when it loads, {} after a warning when it is absent or
\* not YAML; any other exception leaves __init__.  The result is kept in
\* self.site_config, which the health run never reads.
load_site_config(config) ==
    IF config = "valid" THEN Return([title |-> "blog"])
    ELSE IF config \in ConfigCaught THEN Return(EmptyDict)
    ELSE Raise(config)

----------------------------------------------------------------------------
(* The six probes.  Each takes what its collaborators answer and yields
   Return(result dict), Raise(exception) or Block. *)

\* check_site_availability: one GET with timeout=10.  The dict's headers,
\* ssl_valid and timestamp entries are read by no later step and are left out.
check_site_availability(resp) ==
    LET x == WithTimeout(resp)
    IN  IF x.kind = "response"
        THEN Return([status |-> IF x.status_code = 200 THEN "online" ELSE "issues",
                     status_code |-> x.status_code,
                     response_time_ms |-> x.elapsed_ms])
        ELSE Return([status |-> "offline", error |-> x.kind])

\* run_lighthouse_audit: audit = [proc: what subprocess.run did,
\* file: state of lighthouse-report.json, score: performance score in 1/100].
\* Only the three exceptions of LighthouseCaught are handled.
run_lighthouse_audit(audit) ==
    IF audit.proc.kind # "exit"
    THEN IF audit.proc.kind \in LighthouseCaught THEN Return(None) ELSE Raise(audit.proc.kind)
    ELSE IF audit.proc.returncode = 0 /\ audit.file # "absent"
         THEN IF audit.file = "valid"
              THEN Return(IF audit.score # 0 THEN Some(IntTimesHundred(audit.score)) ELSE None)
              ELSE IF audit.file \in LighthouseCaught THEN Return(None) ELSE Raise(audit.file)
         ELSE Return(None)

\* analyze_page_size: requests.get(self.site_url) with no timeout; every
\* exception ends in {}.  page is the home page exchange (the style sheet
\* fetches sit behind a bare except and add to css_size only).
analyze_page_size(page) ==
    IF page.kind = "silent" THEN Block
    ELSE IF page.kind = "response"
         THEN Return([html_size |-> Cardinality(page.body)])
         ELSE Return(EmptyDict)

\* get_load_time_history: history is the state of performance_history.json;
\* only json.JSONDecodeError is handled.
get_load_time_history(history) ==
    IF history \in {"absent", "valid", "JSONDecodeError"} THEN Return(<<>>) ELSE Raise(history)

\* check_site_performance: the three sub-results in the order the dict literal
\* evaluates them; the first that raises or blocks ends the probe.
check_site_performance(o) ==
    LET lh == run_lighthouse_audit(o.audit)
        ps == analyze_page_size(o.page)
        hist == get_load_time_history(o.history)
    IN  IF lh.outcome # "return" THEN lh
        ELSE IF ps.outcome # "return" THEN ps
        ELSE IF hist.outcome # "return" THEN hist
        ELSE Return([lighthouse_score |-> lh.value,
                     page_size |-> ps.value,
                     optimization_suggestions |->
                         IF Truthy(lh.value) /\ lh.value[1] < 90
                         THEN <<"Consider optimizing images and CSS">> ELSE <<>>])

\* check_sitemap: GET /sitemap.xml with no timeout; x.body holds "xml" when the
\* body parses as XML.  Every exception ends in exists False.
check_sitemap(x) ==
    IF x.kind = "silent" THEN Block
    ELSE IF x.kind = "response"
         THEN IF x.status_code = 200
              THEN IF "xml" \in x.body
                   THEN Return([exists |-> TRUE, accessible |-> TRUE])
                   ELSE Return([exists |-> FALSE, error |-> "ParseError"])
              ELSE Return([exists |-> FALSE, status_code |-> x.status_code])
         ELSE Return([exists |-> FALSE, error |-> x.kind])

\* check_robots_txt: GET /robots.txt with no timeout
check_robots_txt(x) ==
    IF x.kind = "silent" THEN Block
    ELSE IF x.kind = "response"
         THEN Return([exists |-> x.status_code = 200])
         ELSE Return([exists |-> FALSE, error |-> x.kind])

\* analyze_meta_tags: GET of the home page with no timeout; substring tests on
\* the body whatever the status; {} on an exception
analyze_meta_tags(x) ==
    IF x.kind = "silent" THEN Block
    ELSE IF x.kind = "response"
         THEN Return([has_title |-> TitleTag \in x.body,
                      has_description |-> DescriptionTag \in x.body])
         ELSE Return(EmptyDict)

\* post_file.name of the i-th entry that glob('*.md') yields
FileName(i) == "post" \o ToString(i) \o ".md"

\* 'if title:' for front_matter_data.get('title'): None when the key is
\* absent or null, falsy when it is the empty string
TruthyTitle(title) == title # None /\ title[1] # ""

\* the positions of the entries yielded by posts_dir.glob('*.md'), in order
Indices(seq) == [i \in 1..Len(seq) |-> i]

\* analyze_page_titles: posts is the sequence of entries of _posts/*.md, each
\* [fm: "ok" | "none" (no leading ---) | "bad" (unreadable file, YAML error,
\* empty front matter or front matter that is no mapping: the except
\* Exception branch), title: None or Some(string), draft, recent].  Only an
\* entry whose front matter loads reaches one of the two lists.
analyze_page_titles(posts) ==
    LET titled == SelectSeq(Indices(posts), LAMBDA i : posts[i].fm = "ok" /\ TruthyTitle(posts[i].title))
        untitled == SelectSeq(Indices(posts), LAMBDA i : posts[i].fm = "ok" /\ ~TruthyTitle(posts[i].title))
        post_titles == [k \in 1..Len(titled) |->
                           [file |-> FileName(titled[k]),
                            title |-> posts[titled[k]].title[1],
                            length |-> Len(posts[titled[k]].title[1])]]
    IN  [post_titles |-> post_titles,
         duplicate_titles |->
             {post_titles[k].title : k \in {j \in 1..Len(post_titles) :
                 \E l \in 1..Len(post_titles) : l # j /\ post_titles[l].title = post_titles[j].title}},
         missing_titles |-> [k \in 1..Len(untitled) |-> FileName(untitled[k])]]

\* check_seo_health: o = [sitemap, robots, home: the three exchanges, posts:
\* the entries of _posts].  check_structured_data repeats the home page GET
\* (no timeout as well) and check_internal_links runs a tool under
\* timeout=120 behind except Exception; neither is read by a later step.
check_seo_health(o) ==
    LET sm == check_sitemap(o.sitemap)
        rb == check_robots_txt(o.robots)
        mt == analyze_meta_tags(o.home)
    IN  IF sm.outcome # "return" THEN sm
        ELSE IF rb.outcome # "return" THEN rb
        ELSE IF mt.outcome # "return" THEN mt
        ELSE Return([sitemap_exists |-> sm.value,
                     robots_txt_exists |-> rb.value,
                     meta_tags_analysis |-> mt.value,
                     page_titles |-> analyze_page_titles(o.posts)])


\* count_posts: posts is the sequence of entries of _posts/*.md, each
\* [fm: "ok" | "none" (no leading ---) | "bad" (unreadable file, YAML error,
\* empty front matter or front matter that is no mapping: the except
\* Exception branch), title, draft, recent].
\* total_posts is incremented before the entry is read.
count_posts(posts) ==
    LET ok == {i \in 1..Len(posts) : posts[i].fm = "ok"}
    IN  [total_posts |-> Len(posts),
         published_posts |-> Cardinality({i \in ok : ~posts[i].draft}),
         draft_posts |-> Cardinality({i \in ok : posts[i].draft}),
         recent_posts |-> Cardinality({i \in ok : posts[i].recent})]

\* str.startswith on a string held as a sequence of characters
StartsWith(s, prefix) == Len(s) >= Len(prefix) /\ SubSeq(s, 1, Len(prefix)) = prefix

\* One Markdown link of find_broken_links: link = [file, url: characters,
\* head: the HEAD exchange (timeout=5), exists: link_path.exists()].
\* "skip", "broken" or "fine".
ClassifyLink(link) ==
    IF StartsWith(link.url, <<"h", "t", "t", "p">>) THEN "skip"
    ELSE IF StartsWith(link.url, <<"/">>)
         THEN IF WithTimeout(link.head).kind = "response" /\ link.head.status_code < 400
              THEN "fine" ELSE "broken"
         ELSE IF link.exists THEN "fine" ELSE "broken"

\* find_broken_links: the "file: url" entries of the broken links, in scan order
RECURSIVE find_broken_links(_)
find_broken_links(links) ==
    IF links = <<>> THEN <<>>
    ELSE LET l == Head(links)
         IN  (IF ClassifyLink(l) = "broken" THEN << <<l.file, l.url>> >> ELSE <<>>)
             \o find_broken_links(Tail(links))

\* check_content_integrity: o = [posts, links].  images_analysis,
\* missing_assets and content_quality are read by no later step.
check_content_integrity(o) ==
    Return([posts_count |-> count_posts(o.posts),
            broken_links |-> find_broken_links(o.links)])

\* the links of the repository as find_broken_links meets them: head is what
\* the HEAD request of an absolute-path link meets
LinksSeen(links, head) ==
    [i \in DOMAIN links |->
        [file |-> links[i].file, url |-> links[i].url, head |-> head, exists |-> links[i].exists]]

\* self.site_url, set in __init__
site_url == <<"h", "t", "t", "p", "s", ":", "/", "/">>

\* check_security_headers: GET of the home page with no timeout
check_security_headers(x) ==
    IF x.kind = "silent" THEN Block
    ELSE IF x.kind = "response" THEN Return([checked |-> TRUE])
    ELSE Return([error |-> x.kind])

\* check_dependencies: bundle audit under timeout=60 behind except Exception
check_dependencies(proc) ==
    IF proc.kind = "exit"
    THEN [vulnerabilities_found |-> proc.returncode # 0]
    ELSE [error |-> proc.kind]

\* check_security: url is self.site_url, o = [home: the exchange, audit: the tool]
check_security(url, o) ==
    LET sh == check_security_headers(o.home)
    IN  IF sh.outcome # "return" THEN sh
        ELSE Return([https_enabled |-> StartsWith(url, <<"h", "t", "t", "p", "s", ":", "/", "/">>),
                     security_headers |-> sh.value,
                     dependency_vulnerabilities |-> check_dependencies(o.audit)])

\* mutant: the build taken as successful whenever the tool exits
check_build_status_AnyExit(proc) ==
    IF proc.kind = "exit"
    THEN Return([build_successful |-> TRUE])
    ELSE Return([build_successful |-> FALSE, error |-> proc.kind])

\* check_build_status: jekyll build --dry-run under timeout=60 behind except Exception
check_build_status(proc) ==
    IF proc.kind = "exit"
    THEN Return([build_successful |-> proc.returncode = 0])
    ELSE Return([build_successful |-> FALSE, error |-> proc.kind])

----------------------------------------------------------------------------
(* The score aggregator *)

max_score == 100

\* mutant: the 20 availability points awarded whatever the status
AvailabilityPoints_AnyStatus(report) ==
    20 + (IF report["site_availability"].status = "online"
             /\ report["site_availability"].response_time_ms < 1000 THEN 5 ELSE 0)

\* mutant: a latency bonus of 10 points
AvailabilityPoints_BonusTen(report) ==
    IF report["site_availability"].status = "online"
    THEN 20 + (IF report["site_availability"].response_time_ms < 1000 THEN 10 ELSE 0)
    ELSE 0

\* mutant: the latency bonus awarded up to and including 1000 ms
AvailabilityPoints_AtMost1000(report) ==
    IF report["site_availability"].status = "online"
    THEN 20 + (IF report["site_availability"].response_time_ms <= 1000 THEN 5 ELSE 0)
    ELSE 0

\* the points of each dimension, as calculate_health_score adds them
AvailabilityPoints(report) ==
    IF report["site_availability"].status = "online"
    THEN 20 + (IF report["site_availability"].response_time_ms < 1000 THEN 5 ELSE 0)
    ELSE 0

\* mutant: a tenth of the audit score instead of a fifth
PerformancePoints_Tenth(report) ==
    LET lighthouse_score == Get(report["performance"], "lighthouse_score", None)
    IN  IF Truthy(lighthouse_score) THEN lighthouse_score[1] \div 10 ELSE 0

PerformancePoints(report) ==
    LET lighthouse_score == Get(report["performance"], "lighthouse_score", None)
    IN  IF Truthy(lighthouse_score) THEN IntTimesPointTwo(lighthouse_score[1]) ELSE 0

SeoPoints(report) ==
    LET seo == report["seo_health"]
    IN  ( BoolInt(Get(seo.sitemap_exists, "exists", FALSE))
        + BoolInt(Get(seo.robots_txt_exists, "exists", FALSE))
        + BoolInt(Get(seo.meta_tags_analysis, "has_title", FALSE))
        + BoolInt(Get(seo.meta_tags_analysis, "has_description", FALSE)) ) * 5

\* mutant: the link award given when broken links were found
ContentPoints_BrokenLinksAwarded(report) ==
    (IF report["content_integrity"].posts_count.total_posts > 0 THEN 10 ELSE 0)
    + (IF Len(report["content_integrity"].broken_links) # 0 THEN 10 ELSE 0)

ContentPoints(report) ==
    (IF report["content_integrity"].posts_count.total_posts > 0 THEN 10 ELSE 0)
    + (IF Len(report["content_integrity"].broken_links) = 0 THEN 10 ELSE 0)

SecurityPoints(report) ==
    (IF report["security_scan"].https_enabled THEN 5 ELSE 0)
    + (IF ~Get(report["security_scan"].dependency_vulnerabilities, "vulnerabilities_found", TRUE)
       THEN 5 ELSE 0)

BuildPoints(report) ==
    IF report["build_status"].build_successful THEN 10 ELSE 0

\* score before the final min()
RawScore(report) ==
    AvailabilityPoints(report) + PerformancePoints(report) + SeoPoints(report)
    + ContentPoints(report) + SecurityPoints(report) + BuildPoints(report)

Min(a, b) == IF a < b THEN a ELSE b

\* mutant: the sum returned without the final min()
calculate_health_score_unclamped(report) == RawScore(report)

\* mutant: a score that also reads the wall clock
calculate_health_score_clock(report) == Min(RawScore(report) + clock, max_score)

calculate_health_score(report) == Min(RawScore(report), max_score)


----------------------------------------------------------------------------
(* The report store: files of automation/ and the 'latest' symlink *)

\* self.automation_dir
automation_dir == "automation"

\* f"health_report_{datetime.now().strftime('%Y%m%d_%H%M%S')}.json": one name per second
ReportName(t) == "health_report_" \o ToString(t) \o ".json"

\* self.automation_dir / name: a path is the sequence of its components
ReportPath(t) == <<automation_dir, ReportName(t)>>

\* self.automation_dir / 'latest_health_report.json'
latest_report == <<automation_dir, "latest_health_report.json">>

\* no path yet, and no symlink at latest_report
NoPath == <<>>
NoLink == <<>>

\* mutant: symlink_to(report_file), the path with its directory
LinkTarget_FullPath(path) == path

\* report_file.name, the target handed to symlink_to: the last component
LinkTarget(path) == <<path[Len(path)]>>

\* the path a relative symlink target stands for: relative to the link's directory
Resolve(link, target) == SubSeq(link, 1, Len(link) - 1) \o target

\* the keys of health_report in insertion order (dict literal, then overall_score)
ReportKeys ==
    <<"timestamp", "site_availability", "performance", "seo_health",
      "content_integrity", "security_scan", "build_status", "overall_score">>

\* json.dump(health_report, f, indent=2, ensure_ascii=False, default=str): the
\* text of the file, one member "key": text per key present, in insertion order
Serialize(report) ==
    LET present == SelectSeq(ReportKeys, LAMBDA k : k \in DOMAIN report)
    IN  [i \in 1..Len(present) |-> <<present[i], ToString(report[present[i]])>>]

\* Path.exists() of the symlink: follows the link, False when it dangles
LinkExists(fs, link) == link # NoLink /\ Resolve(latest_report, link) \in DOMAIN fs

\* the file system with the file at path created or truncated to content
WriteFile(fs, path, content) == [p \in DOMAIN fs \cup {path} |-> IF p = path THEN content ELSE fs[p]]

\* the file system with the file at path removed
RemoveFile(fs, path) == [p \in DOMAIN fs \ {path} |-> fs[p]]

\* What a reader that follows the 'latest' pointer finds at this instant
ReaderView ==
    IF latest = NoLink THEN "missing"
    ELSE IF Resolve(latest_report, latest) \notin DOMAIN files THEN "dangling"
    ELSE IF Len(files[Resolve(latest_report, latest)]) < Len(ReportKeys) THEN "partial"
    ELSE "complete"

\* the content the reader gets through the pointer
ReadLatest == files[Resolve(latest_report, latest)]


----------------------------------------------------------------------------
(* The environment of a health run *)

\* the home page as the deployed site serves it
HomeBody == {TitleTag, DescriptionTag}

\* site: "up", "down" (connection refused), "silent" (never answers),
\* "slow_sitemap" (up, but /sitemap.xml never answers);
\* tools: "installed", "missing" (not on PATH), "broken" (present, not executable)
Environments == [site : {"up", "down", "silent", "slow_sitemap"},
                 tools : {"installed", "missing", "broken"}]

\* what a GET of the home page meets
HomeExchange(e) ==
    IF e.site \in {"up", "slow_sitemap"} THEN Response(200, 400, HomeBody)
    ELSE IF e.site = "down" THEN NetError("ConnectionError") ELSE Silent

\* what a GET of /sitemap.xml meets
SitemapExchange(e) ==
    IF e.site = "up" THEN Response(200, 30, {"xml"})
    ELSE IF e.site = "down" THEN NetError("ConnectionError") ELSE Silent

\* what a GET of /robots.txt meets
RobotsExchange(e) ==
    IF e.site \in {"up", "slow_sitemap"} THEN Response(200, 30, {})
    ELSE IF e.site = "down" THEN NetError("ConnectionError") ELSE Silent

\* what subprocess.run of an external tool meets
ToolRun(e) ==
    IF e.tools = "installed" THEN Exit(0)
    ELSE IF e.tools = "missing" THEN ProcError("FileNotFoundError")
    ELSE ProcError("PermissionError")

\* the Lighthouse run and its report file
AuditRun(e) == [proc |-> ToolRun(e), file |-> "valid", score |-> 95]

\* sequences over S of length at most n
SeqUpTo(S, n) == UNION {[1..k -> S] : k \in 0..n}

\* what a HEAD of a page of the site meets
HeadExchange(e) ==
    IF e.site \in {"up", "slow_sitemap"} THEN Response(200, 30, {})
    ELSE IF e.site = "down" THEN NetError("ConnectionError") ELSE Silent

\* entries and links of the local repository the runs are checked on: a
\* published entry; an absolute-path link, a relative link to a missing file
\* and a relative link to an existing one
TreePosts == {[fm |-> "ok", title |-> Some("a"), draft |-> FALSE, recent |-> TRUE]}
TreeLinks ==
    {[file |-> "a.md", url |-> <<"/", "b">>, exists |-> FALSE],
     [file |-> "a.md", url |-> <<"b">>, exists |-> FALSE],
     [file |-> "a.md", url |-> <<"c">>, exists |-> TRUE]}
Trees ==
    [posts : SeqUpTo(TreePosts, MaxTreePosts), links : SeqUpTo(TreeLinks, MaxLinks),
     config : {"valid"}]

\* the states of _config.yml: "valid" (readable YAML), absent, not YAML, or
\* not readable by the process
ConfigStates == {"valid", "FileNotFoundError", "YAMLError", "PermissionError"}

\* repositories with _config.yml in any state, and no Markdown link
ConfigTrees == [posts : SeqUpTo(TreePosts, MaxTreePosts), links : {<<>>}, config : ConfigStates]

\* the repositories whose content results are handed to the aggregator: up
\* to MaxPosts entries, and links that are all broken
ScoreLinks == {l \in TreeLinks : ~StartsWith(l.url, <<"/">>) /\ ~l.exists}
ScoreTrees == [posts : SeqUpTo(TreePosts, MaxPosts), links : SeqUpTo(ScoreLinks, MaxLinks)]

----------------------------------------------------------------------------
(* The health run: check_site_health, one step per probe, then the score,
   then save_health_report one file-system call at a time *)

Init ==
    /\ pc = "idle"
    /\ run = 0
    /\ health_report = EmptyDict
    /\ report_file = NoPath
    /\ link_seen = FALSE
    /\ log = <<>>
    /\ clock = 0
    /\ files = EmptyDict
    /\ latest = NoLink
    /\ env = [site |-> "up", tools |-> "installed"]
    /\ tree \in Trees

\* main(): a new process constructs BlogAutomation, which loads the
\* configuration, and starts check_site_health; the timestamp entry is
\* evaluated first.  An exception of the constructor ends the process.
StartRun ==
    /\ pc \in {"idle", "raised"}
    /\ run < MaxRuns
    /\ run' = run + 1
    /\ env' \in Environments
    /\ IF load_site_config(tree.config).outcome = "return"
       THEN /\ health_report' = [k \in {"timestamp"} |-> clock]
            /\ pc' = "site_availability"
       ELSE /\ health_report' = EmptyDict
            /\ pc' = "raised"
    /\ report_file' = NoPath
    /\ link_seen' = FALSE
    /\ log' = <<>>
    /\ UNCHANGED <<clock, files, latest, tree>>

\* one entry of the dict literal: the probe's result is kept under key, an
\* exception leaves check_site_health, a call that never returns holds it
ProbeStep(key, result, next) ==
    /\ pc = key
    /\ IF result.outcome = "return"
       THEN /\ health_report' = [k \in DOMAIN health_report \cup {key} |->
                                    IF k = key THEN result.value ELSE health_report[k]]
            /\ pc' = next
       ELSE /\ health_report' = health_report
            /\ pc' = IF result.outcome = "raise" THEN "raised" ELSE "blocked"
    /\ UNCHANGED <<run, report_file, link_seen, log, clock, files, latest, env, tree>>

CheckSiteAvailability ==
    ProbeStep("site_availability", check_site_availability(HomeExchange(env)), "performance")

CheckSitePerformance ==
    ProbeStep("performance",
              check_site_performance([audit |-> AuditRun(env), page |-> HomeExchange(env),
                                      history |-> "absent"]),
              "seo_health")

CheckSeoHealth ==
    ProbeStep("seo_health",
              check_seo_health([sitemap |-> SitemapExchange(env), robots |-> RobotsExchange(env),
                                home |-> HomeExchange(env), posts |-> tree.posts]),
              "content_integrity")

CheckContentIntegrity ==
    ProbeStep("content_integrity",
              check_content_integrity([posts |-> tree.posts,
                                       links |-> LinksSeen(tree.links, HeadExchange(env))]),
              "security_scan")

\* mutant: the score computed right after the security probe, the build probe
\* left out
CheckSecurity_SkipsBuild ==
    ProbeStep("security_scan",
              check_security(site_url, [home |-> HomeExchange(env), audit |-> ToolRun(env)]),
              "overall_score")

CheckSecurity ==
    ProbeStep("security_scan",
              check_security(site_url, [home |-> HomeExchange(env), audit |-> ToolRun(env)]),
              "build_status")

CheckBuildStatus ==
    ProbeStep("build_status", check_build_status(ToolRun(env)), "overall_score")

\* health_report['overall_score'] = self.calculate_health_score(health_report)
CalculateHealthScore ==
    ProbeStep("overall_score", Return(calculate_health_score(health_report)), "save_open")


\* what leaves the save steps unchanged
SaveFrame == UNCHANGED <<run, health_report, clock, env, tree>>

\* save_health_report, lines 677-680: the timestamped path, then open(report_file, 'w')
\* creates the file or truncates it; an OSError goes to the except branch
SaveOpen ==
    /\ pc = "save_open"
    /\ report_file' = ReportPath(clock)
    /\ \E writable \in BOOLEAN :
          IF writable
          THEN /\ files' = WriteFile(files, ReportPath(clock), <<>>)
               /\ log' = log
               /\ pc' = "save_dump"
          ELSE /\ files' = files
               /\ log' = Append(log, "Failed to save health report")
               /\ pc' = "done"
    /\ UNCHANGED <<link_seen, latest>>
    /\ SaveFrame

\* lines 681-683: json.dump and the close of the with block; a write error
\* leaves the members written so far and goes to the except branch
SaveDump ==
    /\ pc = "save_dump"
    /\ \E written \in {1, Len(Serialize(health_report))} :
          /\ files' = WriteFile(files, report_file, SubSeq(Serialize(health_report), 1, written))
          /\ IF written = Len(Serialize(health_report))
             THEN /\ log' = Append(log, "Health report saved")
                  /\ pc' = "save_exists"
             ELSE /\ log' = Append(log, "Failed to save health report")
                  /\ pc' = "done"
    /\ UNCHANGED <<report_file, link_seen, latest>>
    /\ SaveFrame

\* line 687: if latest_report.exists()
SaveExists ==
    /\ pc = "save_exists"
    /\ link_seen' = LinkExists(files, latest)
    /\ pc' = IF LinkExists(files, latest) THEN "save_unlink" ELSE "save_symlink"
    /\ UNCHANGED <<report_file, log, files, latest>>
    /\ SaveFrame

\* line 688: latest_report.unlink(); FileNotFoundError when there is no link
SaveUnlink ==
    /\ pc = "save_unlink"
    /\ IF latest # NoLink
       THEN /\ latest' = NoLink
            /\ log' = log
            /\ pc' = "save_symlink"
       ELSE /\ latest' = latest
            /\ log' = Append(log, "Failed to save health report")
            /\ pc' = "done"
    /\ UNCHANGED <<report_file, link_seen, files>>
    /\ SaveFrame

\* line 689: latest_report.symlink_to(report_file.name); FileExistsError when
\* a link is still there
SaveSymlink ==
    /\ pc = "save_symlink"
    /\ IF latest = NoLink
       THEN /\ latest' = LinkTarget(report_file)
            /\ log' = log
       ELSE /\ latest' = latest
            /\ log' = Append(log, "Failed to save health report")
    /\ pc' = "done"
    /\ UNCHANGED <<report_file, link_seen, files>>
    /\ SaveFrame

\* lines 91-92: check_site_health returns the report and the process ends
Finish ==
    /\ pc = "done"
    /\ pc' = "idle"
    /\ UNCHANGED <<run, health_report, report_file, link_seen, log, clock, files, latest, env, tree>>

\* a second passes
Tick ==
    /\ clock < MaxClock
    /\ clock' = clock + 1
    /\ UNCHANGED <<pc, run, health_report, report_file, link_seen, log, files, latest, env, tree>>

\* between two runs, a timestamped report of an earlier second is removed
RemoveOldReport ==
    /\ pc = "idle"
    /\ \E t \in 0..(clock - 1) :
          /\ ReportPath(t) \in DOMAIN files
          /\ files' = RemoveFile(files, ReportPath(t))
    /\ UNCHANGED <<pc, run, health_report, report_file, link_seen, log, clock, latest, env, tree>>

\* the steps of the health run itself
RunStep ==
    \/ CheckSiteAvailability
    \/ CheckSitePerformance
    \/ CheckSeoHealth
    \/ CheckContentIntegrity
    \/ CheckSecurity
    \/ CheckBuildStatus
    \/ CalculateHealthScore
    \/ SaveOpen
    \/ SaveDump
    \/ SaveExists
    \/ SaveUnlink
    \/ SaveSymlink
    \/ Finish

Next == StartRun \/ RunStep \/ Tick \/ RemoveOldReport

Spec == Init /\ [][Next]_vars

\* the health runs in a repository whose _config.yml is in any state
ConfigInit ==
    /\ pc = "idle"
    /\ run = 0
    /\ health_report = EmptyDict
    /\ report_file = NoPath
    /\ link_seen = FALSE
    /\ log = <<>>
    /\ clock = 0
    /\ files = EmptyDict
    /\ latest = NoLink
    /\ env = [site |-> "up", tools |-> "installed"]
    /\ tree \in ConfigTrees

ConfigSpec == ConfigInit /\ [][Next]_vars


----------------------------------------------------------------------------
(* The aggregator on its own: every report the probes can hand to
   calculate_health_score, and the one step that applies it *)

\* performance_score of the Lighthouse report runs from 0.00 to 1.00
PerformanceScoreMax == 100

\* answers of the home page GET of the availability probe
ScoreExchanges ==
    {Response(200, 400, HomeBody), Response(200, 1000, HomeBody),
     Response(404, 400, HomeBody), NetError("ConnectionError")}

\* Lighthouse runs: every performance score, and the tool missing
ScoreAudits ==
    {[proc |-> Exit(0), file |-> "valid", score |-> p] : p \in 0..PerformanceScoreMax}
    \cup {[proc |-> ProcError("FileNotFoundError"), file |-> "absent", score |-> 0]}

\* answers of the sitemap and robots.txt GETs
ScoreFileExchanges == {Response(200, 30, {"xml"}), NetError("ConnectionError")}

\* answers of the home page GET of analyze_meta_tags
ScoreHomeExchanges ==
    {Response(200, 400, body) : body \in SUBSET HomeBody} \cup {NetError("ConnectionError")}

\* runs of bundle audit and of the build
ScoreToolRuns == {Exit(0), Exit(1), ProcError("FileNotFoundError")}
ScoreBuildRuns == {Exit(0), Exit(1)}

\* the dict literal of check_site_health from the six probe results
ReportOf(ts, a, p, s, c, x, b) ==
    [k \in {"timestamp", "site_availability", "performance", "seo_health",
            "content_integrity", "security_scan", "build_status"} |->
        CASE k = "timestamp" -> ts
          [] k = "site_availability" -> a
          [] k = "performance" -> p
          [] k = "seo_health" -> s
          [] k = "content_integrity" -> c
          [] k = "security_scan" -> x
          [] k = "build_status" -> b]

ScoreInit ==
    /\ pc = "overall_score"
    /\ run = 1
    /\ report_file = NoPath
    /\ link_seen = FALSE
    /\ log = <<>>
    /\ clock = 0
    /\ files = EmptyDict
    /\ latest = NoLink
    /\ env = [site |-> "up", tools |-> "installed"]
    /\ tree = [posts |-> <<>>, links |-> <<>>, config |-> "valid"]
    /\ \E a \in ScoreExchanges, au \in ScoreAudits, sm \in ScoreFileExchanges,
          rb \in ScoreFileExchanges, hm \in ScoreHomeExchanges,
          dep \in ScoreToolRuns, bld \in ScoreBuildRuns, tr \in ScoreTrees :
          health_report =
              ReportOf(0,
                       check_site_availability(a).value,
                       check_site_performance([audit |-> au, page |-> Response(200, 400, HomeBody),
                                               history |-> "absent"]).value,
                       check_seo_health([sitemap |-> sm, robots |-> rb, home |-> hm,
                                         posts |-> tr.posts]).value,
                       check_content_integrity(
                           [posts |-> tr.posts,
                            links |-> LinksSeen(tr.links, Response(200, 30, {}))]).value,
                       check_security(site_url, [home |-> Response(200, 400, HomeBody),
                                                 audit |-> dep]).value,
                       check_build_status(bld).value)

ScoreNext == CalculateHealthScore

ScoreSpec == ScoreInit /\ [][ScoreNext]_vars

----------------------------------------------------------------------------
(* The probes on their own: every kind of answer a probe's collaborator can
   give, kept in env next to the report built from the six results, and the
   aggregator applied to that report *)

\* status codes of the final response of a GET
StatusCodes == {200, 204, 299, 300, 404, 503}

\* what the home page GET of the availability probe meets
ProbeExchanges ==
    {Response(code, 400, HomeBody) : code \in StatusCodes}
    \cup {NetError("ConnectionError"), Silent}

\* Lighthouse runs: a score, or the tool missing
ProbeAudits ==
    {[proc |-> Exit(0), file |-> "valid", score |-> 95],
     [proc |-> ProcError("FileNotFoundError"), file |-> "absent", score |-> 0]}

\* what the GET of /sitemap.xml meets: XML, a body that is not XML, a
\* status other than 200, a refused connection
ProbeSitemapExchanges ==
    {Response(200, 30, {"xml"}), Response(200, 30, {}), Response(404, 30, {}),
     NetError("ConnectionError")}

\* what the GET of /robots.txt meets
ProbeRobotsExchanges == {Response(200, 30, {}), Response(404, 30, {})}

\* runs of the build: exit codes, the tool missing, not executable, or stopped
\* after the 60 seconds of timeout=60
ProbeBuildRuns ==
    {Exit(0), Exit(1), ProcError("FileNotFoundError"), ProcError("PermissionError"),
     ProcError("TimeoutExpired")}

\* entries of _posts: published ones and drafts
ProbePosts == TreePosts \cup {[fm |-> "ok", title |-> Some("a"), draft |-> TRUE, recent |-> TRUE]}

\* the repositories the content probe is run on
ProbeTrees ==
    [posts : SeqUpTo(ProbePosts, MaxTreePosts), links : SeqUpTo(ScoreLinks, MaxLinks),
     config : {"valid"}]

ProbeInit ==
    /\ pc = "overall_score"
    /\ run = 1
    /\ report_file = NoPath
    /\ link_seen = FALSE
    /\ log = <<>>
    /\ clock = 0
    /\ files = EmptyDict
    /\ latest = NoLink
    /\ tree \in ProbeTrees
    /\ env \in [home : ProbeExchanges, audit : ProbeAudits, sitemap : ProbeSitemapExchanges,
                 robots : ProbeRobotsExchanges, scan : ScoreToolRuns, build : ProbeBuildRuns]
    /\ health_report =
           ReportOf(0,
                    check_site_availability(env.home).value,
                    check_site_performance([audit |-> env.audit,
                                            page |-> Response(200, 400, HomeBody),
                                            history |-> "absent"]).value,
                    check_seo_health([sitemap |-> env.sitemap, robots |-> env.robots,
                                      home |-> Response(200, 400, HomeBody),
                                      posts |-> tree.posts]).value,
                    check_content_integrity(
                        [posts |-> tree.posts,
                         links |-> LinksSeen(tree.links, Response(200, 30, {}))]).value,
                    check_security(site_url, [home |-> Response(200, 400, HomeBody),
                                              audit |-> env.scan]).value,
                    check_build_status(env.build).value)

ProbeSpec == ProbeInit /\ [][ScoreNext]_vars

----------------------------------------------------------------------------
(* The content functions on their own: analyze_page_titles, count_posts and
   find_broken_links on every small repository, the answer to the HEAD
   requests kept in env, the other probes nominal *)

\* entries of _posts: published and titled; a titled draft; front matter
\* without a title; with an empty title; no front-matter block; front matter
\* that is empty or does not parse
ContentPosts ==
    {[fm |-> "ok", title |-> Some("a"), draft |-> FALSE, recent |-> TRUE],
     [fm |-> "ok", title |-> Some("a"), draft |-> TRUE, recent |-> FALSE],
     [fm |-> "ok", title |-> None, draft |-> FALSE, recent |-> FALSE],
     [fm |-> "ok", title |-> Some(""), draft |-> FALSE, recent |-> TRUE],
     [fm |-> "none", title |-> None, draft |-> FALSE, recent |-> FALSE],
     [fm |-> "bad", title |-> None, draft |-> FALSE, recent |-> FALSE]}

\* Markdown links: those of TreeLinks, a relative link to a missing file
\* named httpd, and an external URL
ContentLinks ==
    TreeLinks
    \cup {[file |-> "a.md", url |-> <<"h", "t", "t", "p", "d">>, exists |-> FALSE],
          [file |-> "a.md", url |-> <<"h", "t", "t", "p", ":", "/", "/", "x">>, exists |-> FALSE]}

\* what the HEAD request of an absolute-path link meets
ContentHeadExchanges ==
    {Response(200, 30, {}), Response(399, 30, {}), Response(400, 30, {}),
     NetError("ConnectionError"), Silent}

\* the repositories the content functions are run on
ContentTrees ==
    [posts : SeqUpTo(ContentPosts, MaxEntries), links : SeqUpTo(ContentLinks, MaxContentLinks),
     config : {"valid"}]

ContentInit ==
    /\ pc = "overall_score"
    /\ run = 1
    /\ report_file = NoPath
    /\ link_seen = FALSE
    /\ log = <<>>
    /\ clock = 0
    /\ files = EmptyDict
    /\ latest = NoLink
    /\ tree \in ContentTrees
    /\ env \in [head : ContentHeadExchanges]
    /\ health_report =
           ReportOf(0,
                    check_site_availability(Response(200, 400, HomeBody)).value,
                    check_site_performance([audit |-> [proc |-> Exit(0), file |-> "valid",
                                                       score |-> 95],
                                            page |-> Response(200, 400, HomeBody),
                                            history |-> "absent"]).value,
                    check_seo_health([sitemap |-> Response(200, 30, {"xml"}),
                                      robots |-> Response(200, 30, {}),
                                      home |-> Response(200, 400, HomeBody),
                                      posts |-> tree.posts]).value,
                    check_content_integrity(
                        [posts |-> tree.posts,
                         links |-> LinksSeen(tree.links, env.head)]).value,
                    check_security(site_url, [home |-> Response(200, 400, HomeBody),
                                              audit |-> Exit(0)]).value,
                    check_build_status(Exit(0)).value)

ContentSpec == ContentInit /\ [][ScoreNext]_vars


----------------------------------------------------------------------------
(* Properties *)

\* the aggregator has run: the report holds overall_score
Scored == "overall_score" \in DOMAIN health_report

\* a record of save_health_report in the log of the current run
Logged(msg) == \E i \in DOMAIN log : log[i] = msg

\* the four SEO flags the aggregator reads are all true
SeoComplete(report) ==
    /\ Get(report["seo_health"].sitemap_exists, "exists", FALSE)
    /\ Get(report["seo_health"].robots_txt_exists, "exists", FALSE)
    /\ Get(report["seo_health"].meta_tags_analysis, "has_title", FALSE)
    /\ Get(report["seo_health"].meta_tags_analysis, "has_description", FALSE)

\* https and a clean dependency audit
SecurityClean(report) ==
    /\ report["security_scan"].https_enabled
    /\ ~Get(report["security_scan"].dependency_vulnerabilities, "vulnerabilities_found", TRUE)

\* C1: whatever report the six probes produce, calculate_health_score
\* returns an integer from 0 to 100.
C1_ScoreInRange == Scored => health_report["overall_score"] \in 0..100

\* C1 witness: a scored report whose awarded points exceed 100, so the clamp acted
C1_Witness == Scored /\ RawScore(health_report) > 100 /\ health_report["overall_score"] = 100

\* C2: no failure inside a probe leaves check_site_health as an exception
\* (the run never ends in a raise that skips the later probes and the report).
C2_NoProbeRaises == pc # "raised"

\* C3: a health run never waits without bound: until it has ended, the run
\* itself always has a next step, whatever the site and the tools do.
C3_RunNeverBlocks == pc \in {"idle", "raised"} \/ ENABLED RunStep


\* the run in which every probe meets a failure: the site refuses connections
\* and none of the external tools is installed
AllProbesFail == env = [site |-> "down", tools |-> "missing"]

\* the content awards as the local repository alone decides them when the site
\* is down: 10 for an entry in _posts, 10 when every link is a relative link
\* to an existing file
LocalContentAwards ==
    (IF Len(tree.posts) > 0 THEN 10 ELSE 0)
    + (IF \A i \in DOMAIN tree.links :
             ~StartsWith(tree.links[i].url, <<"/">>) /\ tree.links[i].exists
       THEN 10 ELSE 0)

SaveSteps == {"save_open", "save_dump", "save_exists", "save_unlink", "save_symlink"}

\* C5: while save_health_report runs, a reader who found a complete report
\* behind the 'latest' pointer keeps finding one after every step of the save
\* (never a missing or dangling pointer, never a file not yet fully written).
C5_ReaderSeesCompleteReport ==
    [][(pc \in SaveSteps /\ ReaderView = "complete") => (ReaderView = "complete")']_vars

\* C6: when a run has written its report file and save_health_report is
\* over, the 'latest' pointer resolves to that file.
C6_LatestIsMostRecent ==
    (pc = "done" /\ Logged("Health report saved"))
        => (latest # NoLink /\ Resolve(latest_report, latest) = report_file)

\* C7: right after save_health_report has persisted a report without an error,
\* the file behind the 'latest' pointer exists and its content is that of the
\* timestamped file just written, the serialized report.
C7_RoundTrip ==
    (pc = "done" /\ log = <<"Health report saved">>)
        => /\ latest # NoLink
           /\ Resolve(latest_report, latest) \in DOMAIN files
           /\ ReadLatest = files[report_file]
           /\ ReadLatest = Serialize(health_report)

\* C7 witness: the second run has persisted its report over an earlier 'latest'
C7_Witness ==
    /\ pc = "done"
    /\ log = <<"Health report saved">>
    /\ run = 2
    /\ link_seen
    /\ ReadLatest = Serialize(health_report)

\* C8: online at 400 ms, audit score 95, the four SEO flags, 3 published
\* posts, no broken link, https without vulnerabilities and a successful
\* build score 100.
C8_NominalScenario ==
    ( /\ Scored
      /\ health_report["site_availability"].status = "online"
      /\ health_report["site_availability"].response_time_ms = 400
      /\ health_report["performance"].lighthouse_score = Some(95)
      /\ SeoComplete(health_report)
      /\ health_report["content_integrity"].posts_count.published_posts = 3
      /\ Len(health_report["content_integrity"].broken_links) = 0
      /\ SecurityClean(health_report)
      /\ health_report["build_status"].build_successful )
    => health_report["overall_score"] = 100

\* C8 witness: the scenario's report has been scored
C8_Witness ==
    /\ Scored
    /\ health_report["site_availability"].status = "online"
    /\ health_report["site_availability"].response_time_ms = 400
    /\ health_report["performance"].lighthouse_score = Some(95)
    /\ SeoComplete(health_report)
    /\ health_report["content_integrity"].posts_count.published_posts = 3
    /\ Len(health_report["content_integrity"].broken_links) = 0
    /\ SecurityClean(health_report)
    /\ health_report["build_status"].build_successful
    /\ health_report["overall_score"] = 100

\* C9: the site offline and every other probe nominal with audit score 80
\* score 76 = 0 + 16 + 20 + 20 + 10 + 10.
C9_OfflineScenario ==
    ( /\ Scored
      /\ health_report["site_availability"].status = "offline"
      /\ health_report["performance"].lighthouse_score = Some(80)
      /\ SeoComplete(health_report)
      /\ health_report["content_integrity"].posts_count.total_posts >= 1
      /\ Len(health_report["content_integrity"].broken_links) = 0
      /\ SecurityClean(health_report)
      /\ health_report["build_status"].build_successful )
    => ( /\ health_report["overall_score"] = 76
         /\ AvailabilityPoints(health_report) = 0
         /\ PerformancePoints(health_report) = 16
         /\ SeoPoints(health_report) = 20
         /\ ContentPoints(health_report) = 20
         /\ SecurityPoints(health_report) = 10
         /\ BuildPoints(health_report) = 10 )

\* C9 witness: the scenario's report has been scored
C9_Witness ==
    /\ Scored
    /\ health_report["site_availability"].status = "offline"
    /\ health_report["performance"].lighthouse_score = Some(80)
    /\ SeoComplete(health_report)
    /\ health_report["content_integrity"].posts_count.total_posts >= 1
    /\ Len(health_report["content_integrity"].broken_links) = 0
    /\ SecurityClean(health_report)
    /\ health_report["build_status"].build_successful
    /\ health_report["overall_score"] = 76

\* C10 as claimed: the points awarded before the clamp never exceed 100.
C10_RawAtMost100 == Scored => RawScore(health_report) <= 100

\* C10 as amended: the weights without the latency bonus total 100 and the
\* bonus adds 5, so the points before the clamp never exceed 105 and exceed 100
\* only with the bonus earned; no dimension exceeds its weight.
C10_RawAtMost105 ==
    Scored =>
        /\ RawScore(health_report) <= 105
        /\ AvailabilityPoints(health_report) <= 25
        /\ PerformancePoints(health_report) <= 20
        /\ SeoPoints(health_report) <= 20
        /\ ContentPoints(health_report) <= 20
        /\ SecurityPoints(health_report) <= 10
        /\ BuildPoints(health_report) <= 10
        /\ RawScore(health_report) > 100 =>
              /\ health_report["site_availability"].status = "online"
              /\ health_report["site_availability"].response_time_ms < 1000

\* C10 witness: a report scores 100 although its audit score earns 15 of the
\* 20 performance points
C10_Witness ==
    /\ Scored
    /\ RawScore(health_report) = 100
    /\ PerformancePoints(health_report) = 15
    /\ health_report["overall_score"] = 100


\* the report of the current run built anew from what the probes meet: a
\* second dict with the same contents as health_report
RebuiltReport ==
    ReportOf(health_report["timestamp"],
             check_site_availability(HomeExchange(env)).value,
             check_site_performance([audit |-> AuditRun(env), page |-> HomeExchange(env),
                                     history |-> "absent"]).value,
             check_seo_health([sitemap |-> SitemapExchange(env), robots |-> RobotsExchange(env),
                               home |-> HomeExchange(env), posts |-> tree.posts]).value,
             check_content_integrity([posts |-> tree.posts,
                                      links |-> LinksSeen(tree.links, HeadExchange(env))]).value,
             check_security(site_url, [home |-> HomeExchange(env), audit |-> ToolRun(env)]).value,
             check_build_status(ToolRun(env)).value)

Put(d, key, v) == [k \in DOMAIN d \cup {key} |-> IF k = key THEN v ELSE d[k]]

\* the report with one entry of one probe result replaced
WithEntry(report, probe, key, v) == Put(report, probe, Put(report[probe], key, v))

\* the report with one SEO flag set
WithSeoFlag(report, check, flag) ==
    WithEntry(report, "seo_health", check, Put(report["seo_health"][check], flag, TRUE))

\* the SEO flags the aggregator reads: <<sub-check, flag>>
SeoFlags ==
    {<<"sitemap_exists", "exists">>, <<"robots_txt_exists", "exists">>,
     <<"meta_tags_analysis", "has_title">>, <<"meta_tags_analysis", "has_description">>}

\* the entries <<probe, key, value>> that make one sub-metric of report
\* strictly healthier
HealthierEntries(report) ==
    LET content == report["content_integrity"]
        avail == report["site_availability"]
        lighthouse_score == Get(report["performance"], "lighthouse_score", None)
    IN  \* fewer broken links, down to none
        {<<"content_integrity", "broken_links", SubSeq(content.broken_links, 1, n)>> :
            n \in 0..(Len(content.broken_links) - 1)}
        \* an entry in _posts instead of none
        \cup (IF content.posts_count.total_posts = 0
              THEN {<<"content_integrity", "posts_count", count_posts(<<p>>)>> : p \in TreePosts}
              ELSE {})
        \* an SEO flag true instead of false or absent
        \cup {<<"seo_health", f[1], Put(report["seo_health"][f[1]], f[2], TRUE)>> :
                f \in {g \in SeoFlags : ~Get(report["seo_health"][g[1]], g[2], FALSE)}}
        \* the build successful instead of failed
        \cup (IF ~report["build_status"].build_successful
              THEN {<<"build_status", "build_successful", TRUE>>}
              ELSE {})
        \* a higher audit score
        \cup (IF lighthouse_score # None
              THEN {<<"performance", "lighthouse_score", Some(s)>> :
                        s \in (lighthouse_score[1] + 1)
                              ..Min(lighthouse_score[1] + MaxRise, PerformanceScoreMax)}
              ELSE {})
        \* the site online under 1000 ms instead of at or above
        \cup (IF avail.status = "online" /\ avail.response_time_ms >= 1000
              THEN {<<"site_availability", "response_time_ms", ms>> : ms \in {0, 999}}
              ELSE {})

\* the report equal to report except for the entry e
Healthier(report, e) == WithEntry(report, e[1], e[2], e[3])

\* the points of the dimension scored from the result of probe
PointsOf(report, probe) ==
    CASE probe = "site_availability" -> AvailabilityPoints(report)
      [] probe = "performance" -> PerformancePoints(report)
      [] probe = "seo_health" -> SeoPoints(report)
      [] probe = "content_integrity" -> ContentPoints(report)
      [] probe = "security_scan" -> SecurityPoints(report)
      [] probe = "build_status" -> BuildPoints(report)

\* C12: monotonicity.  For every scored report and every report equal to it
\* except for one strictly healthier sub-metric (fewer broken links, an entry
\* instead of none, an SEO flag set, a successful build, a higher audit score,
\* latency under 1000 ms), neither the points of the affected dimension nor
\* the overall score are lower for the healthier report.
C12_Monotone ==
    Scored => \A e \in HealthierEntries(health_report) :
                  LET better == Healthier(health_report, e)
                  IN  /\ PointsOf(better, e[1]) >= PointsOf(health_report, e[1])
                      /\ calculate_health_score(better) >= health_report["overall_score"]

\* C12 witness: a scored report with a broken link, a failed build and an audit
\* score below the maximum, whose link-free variant scores exactly 10 more
C12_Witness ==
    /\ Scored
    /\ Len(health_report["content_integrity"].broken_links) > 0
    /\ ~health_report["build_status"].build_successful
    /\ Truthy(Get(health_report["performance"], "lighthouse_score", None))
    /\ \E e \in HealthierEntries(health_report) :
          /\ Len(Healthier(health_report, e)["content_integrity"].broken_links) = 0
          /\ calculate_health_score(Healthier(health_report, e))
                 = health_report["overall_score"] + 10


\* the sitemap fetch of the current run fails: no 200 answer with an XML body
SitemapFails(e) ==
    ~(SitemapExchange(e).kind = "response" /\ SitemapExchange(e).status_code = 200
      /\ "xml" \in SitemapExchange(e).body)

\* the robots.txt fetch of the current run succeeds with status 200
RobotsSucceeds(e) == RobotsExchange(e).kind = "response" /\ RobotsExchange(e).status_code = 200

\* the run has gone past the SEO probe or stays in it for ever
PastSeoProbe == pc \notin {"idle", "raised", "site_availability", "performance", "seo_health"}

\* C13: when the sitemap fetch fails while the robots.txt fetch succeeds, the
\* SEO probe still returns: the run is not held in it, its result records
\* sitemap_exists.exists = false and robots_txt_exists.exists = true, and the
\* SEO points are exactly 5 below those of the same report with the sitemap
\* present.
C13_SitemapFailureIsolated ==
    (SitemapFails(env) /\ RobotsSucceeds(env) /\ PastSeoProbe) =>
        /\ pc # "blocked"
        /\ ~health_report["seo_health"].sitemap_exists.exists
        /\ health_report["seo_health"].robots_txt_exists.exists
        /\ SeoPoints(WithSeoFlag(health_report, "sitemap_exists", "exists"))
               = SeoPoints(health_report) + 5


\* C14: the run fails fatally on a configuration load failure and only then.
\* When _config.yml is missing or cannot be parsed (or read), no probe is
\* invoked and no report is built or written; when it loads, the run never
\* ends in an exception.
C14_FatalIffConfigFails ==
    /\ tree.config # "valid" =>
          /\ pc \in {"idle", "raised"}
          /\ health_report = EmptyDict
          /\ files = EmptyDict
    /\ tree.config = "valid" => pc # "raised"


\* the dependency scan gave no verdict: check_dependencies returned its error dict
ScanUnavailable(report) ==
    "vulnerabilities_found" \notin DOMAIN report["security_scan"].dependency_vulnerabilities

\* the audit gave no score: run_lighthouse_audit returned None
AuditUnavailable(report) == Get(report["performance"], "lighthouse_score", None) = None

\* the report with the negative finding in place of the missing signal
WithVulnerabilitiesFound(report) ==
    WithEntry(report, "security_scan", "dependency_vulnerabilities", [vulnerabilities_found |-> TRUE])
WithAuditScoreZero(report) == WithEntry(report, "performance", "lighthouse_score", Some(0))

\* C15: an unavailable optional signal is not scored like a negative finding:
\* a report whose dependency scan (or audit) is unavailable does not get the
\* security (or performance) points and the score of the same report with
\* vulnerabilities found (or an audit score of zero).
C15_UnavailableNotNegative ==
    Scored =>
        /\ ScanUnavailable(health_report) =>
              \/ SecurityPoints(health_report) # SecurityPoints(WithVulnerabilitiesFound(health_report))
              \/ health_report["overall_score"]
                     # calculate_health_score(WithVulnerabilitiesFound(health_report))
        /\ AuditUnavailable(health_report) =>
              \/ PerformancePoints(health_report) # PerformancePoints(WithAuditScoreZero(health_report))
              \/ health_report["overall_score"]
                     # calculate_health_score(WithAuditScoreZero(health_report))


\* C16: the availability probe reports 'online' exactly when the status of
\* its GET is in the success range 200..299, and on a timeout or a connection
\* error it returns 'offline' with an error message and neither status_code
\* nor response_time_ms.
C16_OnlineIffSuccessStatus ==
    LET availability == health_report["site_availability"]
    IN  /\ env.home.kind = "response" =>
              (availability.status = "online" <=> env.home.status_code \in 200..299)
        /\ env.home.kind # "response" =>
              /\ availability.status = "offline"
              /\ "error" \in DOMAIN availability
              /\ DOMAIN availability \cap {"status_code", "response_time_ms"} = {}


\* the points of the five dimensions other than availability
PointsBesidesAvailability(report) ==
    PerformancePoints(report) + SeoPoints(report) + ContentPoints(report)
    + SecurityPoints(report) + BuildPoints(report)

\* C17: the aggregator awards 20 availability points exactly when the report
\* says 'online', and 5 more exactly when it says 'online' with a latency
\* strictly below 1000 ms; a report that is not 'online' earns 0 whether or
\* not it carries a latency, and the score is the clamped sum of these points
\* and those of the other dimensions.
C17_AvailabilityScoring ==
    Scored =>
        LET availability == health_report["site_availability"]
            online == availability.status = "online"
            points == AvailabilityPoints(health_report)
        IN  /\ points \in {0, 20, 25}
            /\ points >= 20 <=> online
            /\ points = 25 <=> (online /\ availability.response_time_ms < 1000)
            /\ (online /\ availability.response_time_ms = 1000) => points = 20
            /\ ~online => points = 0
            /\ health_report["overall_score"]
                   = Min(points + PointsBesidesAvailability(health_report), max_score)

\* C17 witness: a site online at exactly 1000 ms has been scored with 20 points
C17_Witness ==
    /\ Scored
    /\ health_report["site_availability"].status = "online"
    /\ health_report["site_availability"].response_time_ms = 1000
    /\ AvailabilityPoints(health_report) = 20


\* round(s * 0.2) for an integer s >= 0: the nearest integer to s/5 (2s/10 is
\* never half-way between two integers, so every rounding rule agrees)
RoundTimesPointTwo(s) == (2 * s + 5) \div 10

\* C18: the performance points are round(s * 0.2) for the audit score s of the
\* report (18 for s = 88), and 0 when the report has no audit score.
C18_PerformanceRounded ==
    Scored =>
        LET lighthouse_score == Get(health_report["performance"], "lighthouse_score", None)
        IN  PerformancePoints(health_report)
                = IF lighthouse_score = None THEN 0 ELSE RoundTimesPointTwo(lighthouse_score[1])


\* C19: of the 20 content points, 10 are awarded exactly when the report
\* counts at least one published entry (a tree of drafts only earns none of
\* them) and, independently, 10 exactly when the broken-link list is empty.
C19_ContentScoring ==
    Scored =>
        LET content == health_report["content_integrity"]
        IN  ContentPoints(health_report)
                = (IF content.posts_count.published_posts >= 1 THEN 10 ELSE 0)
                  + (IF Len(content.broken_links) = 0 THEN 10 ELSE 0)


\* the build tool ran to completion with exit code 0
BuildRanClean(proc) == proc.kind = "exit" /\ proc.returncode = 0

\* C20: check_build_status records success exactly when the build tool ran
\* to completion with exit code 0 (a missing tool, a timeout and any other
\* invocation error record build_successful = false), and the aggregator
\* awards the 10 build points exactly when success was recorded: the score is
\* the clamped sum of these points and the same report's score with the build
\* failed.
C20_BuildScoring ==
    LET build_status == health_report["build_status"]
        points == BuildPoints(health_report)
    IN  /\ build_status.build_successful <=> BuildRanClean(env.build)
        /\ env.build.kind # "exit" =>
              /\ ~build_status.build_successful
              /\ "error" \in DOMAIN build_status
              /\ points = 0
        /\ points = IF build_status.build_successful THEN 10 ELSE 0
        /\ Scored =>
              health_report["overall_score"]
                  = Min(points + RawScore(WithEntry(health_report, "build_status",
                                                    "build_successful", FALSE)),
                        max_score)

\* C20 witness: a build stopped by its timeout has been recorded as failed
\* and scored without the build points
C20_Witness ==
    /\ Scored
    /\ env.build = ProcError("TimeoutExpired")
    /\ ~health_report["build_status"].build_successful
    /\ BuildPoints(health_report) = 0
    /\ health_report["overall_score"] = RawScore(health_report)


\* the file names listed in post_titles and in missing_titles
TitledFiles(page_titles) ==
    {page_titles.post_titles[k].file : k \in DOMAIN page_titles.post_titles}
UntitledFiles(page_titles) ==
    {page_titles.missing_titles[k] : k \in DOMAIN page_titles.missing_titles}

\* the entry has a title: front matter that loads, with a non-empty title
HasTitle(entry) == entry.fm = "ok" /\ entry.title # None /\ entry.title[1] # ""

\* C21: after analyze_page_titles, every entry without a title (absent or
\* empty title, empty front matter, no front-matter block) is in
\* missing_titles, every entry with a title is in post_titles, and no entry is
\* in both lists or in neither.
C21_TitlesPartition ==
    LET page_titles == health_report["seo_health"].page_titles
    IN  \A i \in DOMAIN tree.posts :
            /\ HasTitle(tree.posts[i]) <=> FileName(i) \in TitledFiles(page_titles)
            /\ ~HasTitle(tree.posts[i]) <=> FileName(i) \in UntitledFiles(page_titles)


\* an external URL: the link names the http or the https scheme
IsExternalUrl(url) ==
    \/ StartsWith(url, <<"h", "t", "t", "p", ":", "/", "/">>)
    \/ StartsWith(url, <<"h", "t", "t", "p", "s", ":", "/", "/">>)

\* the HEAD request gave a status below 400
HeadSucceeds(head) == WithTimeout(head).kind = "response" /\ head.status_code < 400

\* the link is broken by the stated classification: an absolute-path link by
\* its HEAD request, an external URL never, any other link by its path
StatedBroken(link, head) ==
    IF StartsWith(link.url, <<"/">>) THEN ~HeadSucceeds(head)
    ELSE IF IsExternalUrl(link.url) THEN FALSE
    ELSE ~link.exists

\* C22: find_broken_links reports an absolute-path link exactly when its HEAD
\* request fails or answers 400 or more, every relative link (a relative file
\* name beginning with "http" included) exactly when its path does not exist,
\* and no external http(s) URL; the result lists the broken (file, target)
\* pairs in scan order.
C22_BrokenLinkClassification ==
    LET broken == SelectSeq(tree.links, LAMBDA l : StatedBroken(l, env.head))
    IN  health_report["content_integrity"].broken_links
            = [k \in DOMAIN broken |-> <<broken[k].file, broken[k].url>>]

\* the same, on repositories with no relative link whose name begins with "http"
C22_BesidesHttpNames ==
    (\A i \in DOMAIN tree.links :
        StartsWith(tree.links[i].url, <<"h", "t", "t", "p">>) => IsExternalUrl(tree.links[i].url))
    => C22_BrokenLinkClassification


\* C25: the counts of count_posts are consistent on every repository, entries
\* with missing, empty or malformed front matter included: total_posts is
\* published_posts plus draft_posts, and recent_posts is at most total_posts.
C25_CountsConsistent ==
    LET counts == health_report["content_integrity"].posts_count
    IN  /\ counts.total_posts = counts.published_posts + counts.draft_posts
        /\ counts.recent_posts <= counts.total_posts

\* the same, on repositories whose entries all have front matter that loads
C25_WhenFrontMatterLoads ==
    (\A i \in DOMAIN tree.posts : tree.posts[i].fm = "ok") => C25_CountsConsistent

\* recent_posts is at most total_posts on every repository
C25_RecentAtMostTotal ==
    LET counts == health_report["content_integrity"].posts_count
    IN  counts.recent_posts <= counts.total_posts


\* the first n keys of the report
KeysBefore(n) == {ReportKeys[j] : j \in 1..n}

\* the step that follows the one recorded under ReportKeys[i]
StepAfter(i) == IF i < Len(ReportKeys) THEN ReportKeys[i + 1] ELSE "save_open"

\* the order of the steps of save_health_report
SaveOrder == <<"save_open", "save_dump", "save_exists", "save_unlink", "save_symlink", "done">>
SaveRank(step) == CHOOSE i \in DOMAIN SaveOrder : SaveOrder[i] = step

\* the write of the current run's report file has completed
WriteCompleted ==
    \/ pc \in {"save_exists", "save_unlink", "save_symlink"}
    \/ pc = "done" /\ Logged("Health report saved")

\* at each step the report holds the timestamp and exactly the results of the
\* steps before it; the report handed to save_health_report, and the file its
\* write completed, hold all eight keys
C23_ReportGrowsInOrder ==
    /\ \A i \in 2..Len(ReportKeys) : pc = ReportKeys[i] => DOMAIN health_report = KeysBefore(i - 1)
    /\ pc \in SaveSteps \cup {"done"} => DOMAIN health_report = KeysBefore(Len(ReportKeys))
    /\ WriteCompleted =>
          /\ report_file \in DOMAIN files
          /\ {files[report_file][k][1] : k \in DOMAIN files[report_file]}
                 = KeysBefore(Len(ReportKeys))

\* every step of a run is followed by the next one of the fixed order or ends
\* the run, is entered from the one before it only, and records its own result
C23_StepsInOrder ==
    /\ \A i \in 2..Len(ReportKeys) :
          (pc = ReportKeys[i] /\ pc' # pc) =>
              /\ pc' \in {StepAfter(i), "raised", "blocked"}
              /\ run' = run
              /\ pc' = StepAfter(i) =>
                    /\ DOMAIN health_report' = KeysBefore(i)
                    /\ \A k \in DOMAIN health_report : health_report'[k] = health_report[k]
    /\ \A i \in 3..Len(ReportKeys) :
          (pc' = ReportKeys[i] /\ pc' # pc) => pc = ReportKeys[i - 1]
    /\ (pc' = ReportKeys[2] /\ pc' # pc) => run' = run + 1
    /\ (pc' = "save_open" /\ pc' # pc) => (pc = "overall_score" /\ Scored')
    /\ (pc \in SaveSteps /\ pc' # pc) =>
          /\ pc' \in SaveSteps \cup {"done"}
          /\ SaveRank(pc') > SaveRank(pc)
          /\ health_report' = health_report
          /\ run' = run
    /\ pc' = pc => health_report' = health_report

\* C23: in one health run the six probes are invoked once each in the order
\* availability, performance, SEO, content integrity, security, build;
\* calculate_health_score is called only after all six results are in the
\* report; save_health_report is called once, only after overall_score is
\* stored, so every persisted report holds the timestamp, the six probe results
\* and overall_score.
C23_RunOrdering == []C23_ReportGrowsInOrder /\ [][C23_StepsInOrder]_vars

\* C23 witness: a second run has gone through the six probes, the score and a
\* completed write, and its file holds all eight members
C23_Witness ==
    /\ run = 2
    /\ pc = "done"
    /\ log = <<"Health report saved">>
    /\ DOMAIN health_report = KeysBefore(Len(ReportKeys))
    /\ Len(files[report_file]) = Len(ReportKeys)


\* save_health_report is over and the write of the timestamped file failed:
\* open() or json.dump raised, so the success record was never logged
WriteFailed == pc = "done" /\ ~Logged("Health report saved")

\* after a failed write the pointer, where it resolves to a file, resolves to a
\* completely written report
C24_PointerAfterFailedWrite == WriteFailed => ReaderView # "partial"

\* no step of save_health_report raises or changes the report, the step that
\* ends it goes back to check_site_health, which returns the scored report,
\* and a step in which the write fails leaves the pointer as it is
C24_StoreStep ==
    /\ (pc \in SaveSteps /\ pc' # pc) =>
          /\ pc' \notin {"raised", "blocked"}
          /\ health_report' = health_report
          /\ Scored'
    /\ (pc \in {"save_open", "save_dump"} /\ WriteFailed') => latest' = latest
    /\ (pc = "done" /\ pc' # pc) => (pc' = "idle" /\ health_report' = health_report)

\* C24: save_health_report never raises to its caller; when writing the
\* timestamped file fails, the 'latest' pointer is left as it was before the
\* call, still resolving to the previous report, and check_site_health still
\* returns the in-memory report with its overall_score.
C24_StoreFailure == []C24_PointerAfterFailedWrite /\ [][C24_StoreStep]_vars

\* the parts of C24 besides the content behind the pointer
C24_BesidesPointerContent == [][C24_StoreStep]_vars

\* a write that fails in a second in which no report was written before
\* leaves the report behind the pointer complete
C24_InAFreshSecond ==
    (WriteFailed /\ latest # NoLink /\ Resolve(latest_report, latest) # report_file)
        => ReaderView # "partial"

====
